---- MODULE Spec2Model ----
(***************************************************************************)
(* AdaTP relay server: the per-connection session of the TCP listener      *)
(* (server/src/main.rs, handle_connection) and of the WebSocket endpoint   *)
(* (server/src/api.rs, handle_socket), both attached to one tokio          *)
(* broadcast channel of (room, bytes) tuples.                              *)
(***************************************************************************)
EXTENDS Integers, Sequences, FiniteSets, TLC

(***************************************************************************)
(* Bounds of the model.                                                    *)
(***************************************************************************)
\* number of connections the listeners accept
NumSessions == 2
\* application packets the clients send to established sessions
MaxPublish == 3
\* the same, where the clients also change rooms or send further types
MaxPublishFew == 2
\* replies (HandshakeResponse, AuthSuccess) one client is sent
MaxReplies == 2
\* slots of the broadcast channel; main.rs:45 asks for 100, scaled down so
\* that a lagging receiver is reachable
BusCapacity == 2
\* slots of the per-socket mpsc channel; api.rs:95 asks for 100, scaled down
\* so that a full queue is reachable
WsQueueCap == 1
\* frames of one connection that are recorded, where any are
MaxFed == 3

Sessions == 1..NumSessions

(***************************************************************************)
(* Byte strings. A Rust String / Vec<u8> / Bytes is a sequence of bytes.   *)
(***************************************************************************)
Str_global == <<103, 108, 111, 98, 97, 108>>
Str_files == <<102, 105, 108, 101, 115>>
Str_lobby == <<108, 111, 98, 98, 121>>
Str_hi == <<104, 105>>
Str_leave == <<108, 101, 97, 118, 101>>
Str_LEAVE == <<76, 69, 65, 86, 69>>
Str_Welcome == <<87, 101, 108, 99, 111, 109, 101>>
Str_AccessGranted == <<65, 99, 99, 101, 115, 115, 32, 71, 114, 97, 110, 116, 101, 100>>
\* a byte string that is not UTF-8 (0xFF never occurs in UTF-8)
BadUtf8 == <<255>>
\* vec![0u8; 32]
ZeroKey == [i \in 1..32 |-> 0]

\* std::str::from_utf8 on the byte strings of this model: they are ASCII
\* except for bytes >= 0x80, none of which starts a valid sequence here
Utf8Valid(b) == \A i \in 1..Len(b) : b[i] < 128

(***************************************************************************)
(* Packets and the codec (adatp_core).                                     *)
(***************************************************************************)
MsgTypes ==
    {"HandshakeInit", "HandshakeResponse", "HandshakeComplete", "AuthRequest",
     "AuthSuccess", "JoinRoom", "TextMessage", "FileInit", "FileChunk",
     "FileComplete", "VoiceData", "VideoData", "PresenceUpdate", "Disconnect",
     "Unknown"}

\* the application types of the publish contract (spec 4.5)
AppTypes ==
    {"TextMessage", "FileInit", "FileChunk", "FileComplete", "VoiceData", "VideoData"}

Pkt(t, sid, fl, pl) == [msg_type |-> t, session_id |-> sid, flags |-> fl, payload |-> pl]

\* Packet::new(msg_type, payload, session_id): flags start cleared
NewPacket(t, pl, sid) == Pkt(t, sid, 0, pl)

TypeTag(t) ==
    CASE t = "HandshakeInit" -> 1
      [] t = "HandshakeResponse" -> 2
      [] t = "HandshakeComplete" -> 3
      [] t = "AuthRequest" -> 4
      [] t = "AuthSuccess" -> 5
      [] t = "JoinRoom" -> 6
      [] t = "TextMessage" -> 7
      [] t = "FileInit" -> 8
      [] t = "FileChunk" -> 9
      [] t = "FileComplete" -> 10
      [] t = "VoiceData" -> 11
      [] t = "VideoData" -> 12
      [] t = "PresenceUpdate" -> 13
      [] t = "Disconnect" -> 14
      [] OTHER -> 200

TagType(n) ==
    IF \E t \in MsgTypes \ {"Unknown"} : TypeTag(t) = n
    THEN CHOOSE t \in MsgTypes \ {"Unknown"} : TypeTag(t) = n
    ELSE "Unknown"

\* Packet::to_bytes: header (type tag, session id, flags, payload length)
\* followed by the payload
Encode(p) == <<TypeTag(p.msg_type), p.session_id, p.flags, Len(p.payload)>> \o p.payload

\* Packet::from_bytes succeeds: the header is whole and the declared payload
\* length is the number of bytes that follow
DecodeOk(b) == Len(b) >= 4 /\ b[4] = Len(b) - 4

\* Packet::from_bytes on bytes that decode
Decode(b) == Pkt(TagType(b[1]), b[2], b[3], SubSeq(b, 5, Len(b)))

\* a frame whose declared payload length exceeds the bytes present
Malformed == <<7, 7, 0, 5, 104>>

(***************************************************************************)
(* What the clients send.                                                  *)
(***************************************************************************)
\* every packet the clients of this model may send
InPackets ==
    {Pkt(t, 7, 0, Str_hi) : t \in (MsgTypes \ AppTypes) \ {"JoinRoom"}}
    \cup {Pkt("JoinRoom", 7, 0, pl) : pl \in {Str_lobby, BadUtf8}}
    \cup {Pkt("TextMessage", 7, 0, Str_hi), Pkt("VoiceData", 7, 1, Str_hi)}
    \cup {Pkt(t, 8, 0, Str_hi) : t \in {"HandshakeComplete", "AuthRequest"}}

OfTypes(T) == {p \in InPackets : p.msg_type \in T /\ p.session_id = 7}

\* the packets offered in each specification
BaseMenu == OfTypes({"HandshakeInit", "HandshakeComplete", "TextMessage"})
RoomsMenu == BaseMenu \cup OfTypes({"JoinRoom"})
TypesMenu == BaseMenu \cup OfTypes({"VoiceData", "Disconnect"})
AuthMenu ==
    OfTypes({"HandshakeInit", "TextMessage"})
    \cup {p \in InPackets : p.msg_type \in {"HandshakeComplete", "AuthRequest"} /\ p.session_id # 7}
FramesMenu ==
    BaseMenu \cup OfTypes({"PresenceUpdate", "Unknown"})

\* what TcpTransport::read_packet returns: Ok(Some(packet)), Ok(None), Err
TcpEvents(P) ==
    {[kind |-> "packet", packet |-> p] : p \in P}
    \cup {[kind |-> "eof"], [kind |-> "err"]}

\* what receiver.next() returns: a binary frame, a close frame, the end of
\* the stream, or anything else (text, ping, pong, a stream error)
WsEvents(P) ==
    {[kind |-> "binary", data |-> Encode(p)] : p \in P}
    \cup {[kind |-> "binary", data |-> Malformed]}
    \cup {[kind |-> "close"], [kind |-> "end"], [kind |-> "other"]}

(***************************************************************************)
(* State.                                                                  *)
(***************************************************************************)
VARIABLES
    transport,    \* session -> "none", "tcp", "ws"
    pc,           \* session -> where its handler is
    room,         \* session -> the `room` local
    session_id,   \* session -> the `session_id` / `connected_session_id` local
    cursor,       \* session -> number of bus tuples its receiver is past
    armed,        \* session -> the bus branch of the current select! is enabled
    outq,         \* ws session -> contents of its mpsc channel
    pending,      \* ws session -> the value a suspended ws_tx.send holds
    writer,       \* ws session -> write_task is running
    sent,         \* session -> what its client has been sent, in order
    log,          \* every tuple sent on the broadcast channel, in order
    hs,           \* session -> handshake progress as its inbound packets show it
    disc,         \* session -> a Disconnect packet arrived in the session loop
    joined,       \* session -> bus length when its JoinRoom "lobby" was processed
    discarded,    \* session -> it has dropped a tuple of another room
    appIn,        \* application packets the session loops have read
    connections,  \* the connection count of the metrics
    fed           \* session -> the first frames its client sent, where recorded

vars ==
    <<transport, pc, room, session_id, cursor, armed, outq, pending, writer,
      sent, log, hs, disc, joined, discarded, appIn, connections, fed>>

\* Option::None
None == 0
\* no JoinRoom "lobby" is in force
NoJoin == {}
NoPending == <<>>

(***************************************************************************)
(* The broadcast channel (tokio::sync::broadcast). `log` is everything     *)
(* ever sent; the channel retains its last BusCapacity tuples. main keeps  *)
(* its first receiver `_rx` for the life of the process, so a send never   *)
(* fails for lack of receivers, and every session holds a sender, so a     *)
(* receive never reports the channel closed.                               *)
(***************************************************************************)
\* a bounded queue instead: a value is refused while the slowest receiver
\* still has BusCapacity values to read
SendBounded(l, r, b, p) ==
    IF \E s \in Sessions :
          pc[s] \in {"loop", "send_auth", "send_bcast"} /\ Len(l) - cursor[s] >= BusCapacity
    THEN l
    ELSE Append(l, [room |-> r, bytes |-> b, pub |-> p, seq |-> Len(l) + 1])

\* tx.send((room, bytes)) by session p: appended at once, never waits
Send(l, r, b, p) == Append(l, [room |-> r, bytes |-> b, pub |-> p, seq |-> Len(l) + 1])

\* a loop that takes a send no other running session of the room receives
\* as an error and ends
EndsOnSendAlone(s) ==
    \A t \in Sessions \ {s} :
        pc[t] \notin {"loop", "send_auth", "send_bcast"} \/ room[t] # room[s]

\* let _ = tx.send(..): the result of the send is dropped, whatever it is,
\* and never ends the loop of the publisher s
EndsOnSend(s) == FALSE

\* number of tuples the channel has overwritten
Overwritten(l) == IF Len(l) > BusCapacity THEN Len(l) - BusCapacity ELSE 0

\* rx.recv() would return Err(Lagged): the next tuple of s was overwritten
Lagged(s) == cursor[s] < Overwritten(log)

\* rx.recv() would return Ok(tuple)
Ready(s) == ~Lagged(s) /\ cursor[s] < Len(log)

\* a receiver that takes the newest unread tuple first
NextTupleLifo(s) == log[Len(log) - cursor[s] + Overwritten(log)]

\* a receiver that hides the tuples its own session published
NextTupleNoEcho(s) ==
    IF log[cursor[s] + 1].pub = s
    THEN [log[cursor[s] + 1] EXCEPT !.room = <<>>]
    ELSE log[cursor[s] + 1]

\* the tuple rx.recv() returns
NextTuple(s) == log[cursor[s] + 1]

(***************************************************************************)
(* History: handshake progress as the inbound packets of a connection show *)
(* it (spec 4.4), whatever the handler did with them.                      *)
(***************************************************************************)
HsStep(h, t) ==
    CASE h = "none" -> IF t = "HandshakeInit" THEN "init" ELSE "bad"
      [] h = "init" -> IF t = "HandshakeComplete" THEN "done" ELSE "bad"
      [] OTHER -> h

\* an entry of `sent`: the bytes on the wire; for a relayed tuple, its
\* publisher and publish position
Reply(b) == [bytes |-> b, relay |-> FALSE, pub |-> 0, seq |-> 0]

\* a relay that builds the packet anew with Packet::new, which clears the flags
RelayRebuilt(b, t) ==
    [bytes |-> Encode(NewPacket(Decode(b).msg_type, Decode(b).payload, Decode(b).session_id)),
     relay |-> TRUE, pub |-> t.pub, seq |-> t.seq]

Relay(b, t) == [bytes |-> b, relay |-> TRUE, pub |-> t.pub, seq |-> t.seq]

\* replies a client has been sent or is about to be sent
Replies(s) ==
    Cardinality({i \in 1..Len(sent[s]) : ~sent[s][i].relay})
    + Cardinality({i \in 1..Len(outq[s]) : ~outq[s][i].relay})
    + Cardinality({i \in 1..Len(pending[s]) : ~pending[s][i].relay})

\* the clients stop sending what would take the model past its bounds: an
\* application packet once the session loops have read n of them, an
\* AuthRequest once MaxReplies replies were sent
Offered(s, t, n) ==
    /\ t \in AppTypes => appIn < n
    /\ t = "AuthRequest" => Replies(s) < MaxReplies

\* JoinRoom bookkeeping: where the bus stood when "lobby" was asked for
JoinMark(p, l) == IF p.payload = Str_lobby THEN {Len(l)} ELSE NoJoin

\* connections are numbered in the order the listeners accept them
InTurn(s) == \A r \in Sessions : r < s => pc[r] # "idle"

Init ==
    /\ transport = [s \in Sessions |-> "none"]
    /\ pc = [s \in Sessions |-> "idle"]
    /\ room = [s \in Sessions |-> Str_global]
    /\ session_id = [s \in Sessions |-> None]
    /\ cursor = [s \in Sessions |-> 0]
    /\ armed = [s \in Sessions |-> TRUE]
    /\ outq = [s \in Sessions |-> <<>>]
    /\ pending = [s \in Sessions |-> NoPending]
    /\ writer = [s \in Sessions |-> FALSE]
    /\ sent = [s \in Sessions |-> <<>>]
    /\ log = <<>>
    /\ hs = [s \in Sessions |-> "none"]
    /\ disc = [s \in Sessions |-> FALSE]
    /\ joined = [s \in Sessions |-> NoJoin]
    /\ discarded = [s \in Sessions |-> FALSE]
    /\ appIn = 0
    /\ connections = 0
    /\ fed = [s \in Sessions |-> <<>>]

\* a local of session s after this step: gone (back to its default) once
\* the handler returns, v otherwise
Upd(f, s, exit, dflt, v) == [f EXCEPT ![s] = IF exit THEN dflt ELSE v]

(***************************************************************************)
(* The metrics collaborator (server/src/metrics.rs): of its counters only  *)
(* the connection count is kept.                                           *)
(***************************************************************************)
\* Metrics::inc_connection, Metrics::dec_connection
IncConnection(c) == c + 1
DecConnection(c) == c - 1

\* a handler whose return skips the decrement
AfterHandlerLeak(c, exit) == c

\* the count after a step of a handler: dec_connection follows the handler's
\* return, whichever way it returned
AfterHandler(c, exit) == IF exit THEN DecConnection(c) ELSE c

(***************************************************************************)
(* TCP: main's accept loop and handle_connection.                          *)
(***************************************************************************)
\* listener.accept(); tx.subscribe(); spawn handle_connection
AcceptTcp(s) ==
    /\ pc[s] = "idle" /\ InTurn(s)
    /\ transport' = [transport EXCEPT ![s] = "tcp"]
    /\ pc' = [pc EXCEPT ![s] = "hs_init"]
    /\ cursor' = [cursor EXCEPT ![s] = Len(log)]
    /\ connections' = IncConnection(connections)
    /\ UNCHANGED <<room, session_id, armed, outq, pending, writer, sent, log, hs,
                   disc, joined, discarded, appIn>>

\* 1. Handshake Init and 2. Handshake Response; wok: write_packet succeeds
TcpHandshakeInit(s, ev, wok) ==
    /\ transport[s] = "tcp" /\ pc[s] = "hs_init"
    /\ LET ok == ev.kind = "packet" /\ ev.packet.msg_type = "HandshakeInit" /\ wok
       IN /\ hs' = IF ev.kind = "packet"
                   THEN [hs EXCEPT ![s] = HsStep(@, ev.packet.msg_type)] ELSE hs
          /\ pc' = [pc EXCEPT ![s] = IF ok THEN "hs_complete" ELSE "done"]
          /\ sent' = IF ok
                     THEN [sent EXCEPT ![s] = Append(@,
                            Reply(Encode(NewPacket("HandshakeResponse", ZeroKey,
                                                   ev.packet.session_id))))]
                     ELSE sent
          /\ cursor' = Upd(cursor, s, ~ok, 0, cursor[s])
          /\ connections' = AfterHandler(connections, ~ok)
    /\ UNCHANGED <<transport, room, session_id, armed, outq, pending, writer, log,
                   disc, joined, discarded, appIn>>

\* 3. Handshake Complete, then the loop state
TcpHandshakeComplete(s, ev) ==
    /\ transport[s] = "tcp" /\ pc[s] = "hs_complete"
    /\ LET ok == ev.kind = "packet" /\ ev.packet.msg_type = "HandshakeComplete"
       IN /\ hs' = IF ev.kind = "packet"
                   THEN [hs EXCEPT ![s] = HsStep(@, ev.packet.msg_type)] ELSE hs
          /\ pc' = [pc EXCEPT ![s] = IF ok THEN "loop" ELSE "done"]
          /\ room' = [room EXCEPT ![s] = Str_global]
          /\ session_id' = Upd(session_id, s, ~ok, None, ev.packet.session_id)
          /\ cursor' = Upd(cursor, s, ~ok, 0, cursor[s])
          /\ connections' = AfterHandler(connections, ~ok)
    /\ UNCHANGED <<transport, armed, outq, pending, writer, sent, log, disc, joined,
                   discarded, appIn>>

\* a loop that broadcasts the presence packets of its client as well
TcpPublishedAlso ==
    {"FileInit", "FileChunk", "FileComplete", "TextMessage", "PresenceUpdate"}

\* the message types the TCP loop broadcasts
TcpPublished == {"FileInit", "FileChunk", "FileComplete", "TextMessage"}

\* the room the TCP loop switches to on JoinRoom
TcpJoinRoom(p, r) == Str_files

\* READ from Client: one turn of the loop taken by transport.read_packet();
\* wok: write_packet succeeds
TcpRead(s, ev, wok) ==
    /\ transport[s] = "tcp" /\ pc[s] = "loop"
    /\ LET t == IF ev.kind = "packet" THEN ev.packet.msg_type ELSE "none"
           exit == \/ ev.kind # "packet"
                   \/ t = "Disconnect"
                   \/ t = "AuthRequest" /\ ~wok
                   \/ t \in TcpPublished /\ EndsOnSend(s)
       IN /\ pc' = [pc EXCEPT ![s] = IF exit THEN "done" ELSE "loop"]
          /\ armed' = [armed EXCEPT ![s] = TRUE]
          /\ room' = Upd(room, s, exit, Str_global,
                         IF t = "JoinRoom" THEN TcpJoinRoom(ev.packet, room[s])
                         ELSE room[s])
          /\ joined' = Upd(joined, s, exit, NoJoin,
                           IF t = "JoinRoom" THEN JoinMark(ev.packet, log)
                           ELSE joined[s])
          /\ disc' = IF t = "Disconnect" THEN [disc EXCEPT ![s] = TRUE] ELSE disc
          /\ sent' = IF t = "AuthRequest" /\ wok
                     THEN [sent EXCEPT ![s] = Append(@,
                            Reply(Encode(NewPacket("AuthSuccess", Str_Welcome,
                                                   session_id[s]))))]
                     ELSE sent
          /\ log' = IF t \in TcpPublished
                    THEN Send(log, room[s], Encode(ev.packet), s) ELSE log
          /\ session_id' = Upd(session_id, s, exit, None, session_id[s])
          /\ cursor' = Upd(cursor, s, exit, 0, cursor[s])
          /\ appIn' = IF t \in AppTypes THEN appIn + 1 ELSE appIn
          /\ connections' = AfterHandler(connections, exit)
    /\ UNCHANGED <<transport, outq, pending, writer, hs, discarded>>

\* no test at all: every tuple is forwarded
RoomMatchesAny(msg_room, r) == TRUE

\* the test a session applies to a dequeued tuple before forwarding it
RoomMatches(msg_room, r) == msg_room = r

\* WRITE to Client (Broadcast): one turn of the loop taken by rx.recv()
\* returning Ok; wok: write_packet succeeds
TcpBusRecv(s, wok) ==
    /\ transport[s] = "tcp" /\ pc[s] = "loop" /\ armed[s] /\ Ready(s)
    /\ LET t == NextTuple(s)
           fwd == RoomMatches(t.room, room[s]) /\ DecodeOk(t.bytes)
           exit == fwd /\ ~wok
       IN /\ pc' = [pc EXCEPT ![s] = IF exit THEN "done" ELSE "loop"]
          /\ sent' = IF fwd /\ wok
                     THEN [sent EXCEPT ![s] = Append(@, Relay(Encode(Decode(t.bytes)), t))]
                     ELSE sent
          /\ discarded' = IF RoomMatches(t.room, room[s]) THEN discarded
                          ELSE [discarded EXCEPT ![s] = TRUE]
          /\ cursor' = Upd(cursor, s, exit, 0, cursor[s] + 1)
          /\ room' = Upd(room, s, exit, Str_global, room[s])
          /\ session_id' = Upd(session_id, s, exit, None, session_id[s])
          /\ joined' = Upd(joined, s, exit, NoJoin, joined[s])
          /\ connections' = AfterHandler(connections, exit)
    /\ UNCHANGED <<transport, armed, outq, pending, writer, log, hs, disc, appIn>>

\* rx.recv() returns Err(Lagged): the pattern Ok(..) fails, select! disables
\* the branch until the other branch completes; the receiver skips to the
\* oldest retained tuple
BusLag(s) ==
    /\ pc[s] = "loop" /\ armed[s] /\ Lagged(s)
    /\ cursor' = [cursor EXCEPT ![s] = Overwritten(log)]
    /\ armed' = [armed EXCEPT ![s] = FALSE]
    /\ UNCHANGED <<transport, pc, room, session_id, outq, pending, writer, sent, log,
                   hs, disc, joined, discarded, appIn, connections>>

(***************************************************************************)
(* WebSocket: handle_socket.                                               *)
(***************************************************************************)
\* on_upgrade: split the socket, spawn write_task, subscribe, enter the loop
AcceptWs(s) ==
    /\ pc[s] = "idle" /\ InTurn(s)
    /\ transport' = [transport EXCEPT ![s] = "ws"]
    /\ pc' = [pc EXCEPT ![s] = "loop"]
    /\ room' = [room EXCEPT ![s] = Str_global]
    /\ session_id' = [session_id EXCEPT ![s] = None]
    /\ writer' = [writer EXCEPT ![s] = TRUE]
    /\ cursor' = [cursor EXCEPT ![s] = Len(log)]
    /\ connections' = IncConnection(connections)
    /\ UNCHANGED <<armed, outq, pending, sent, log, hs, disc, joined, discarded, appIn>>

\* DISCONNECT HANDLER: the bus after the code that follows the loop, for a
\* session whose locals are r (room) and sid (connected_session_id)
WsLeave(l, s, r, sid) ==
    IF sid # None
    THEN Send(l, r, Encode(NewPacket("PresenceUpdate", Str_LEAVE, sid)), s)
    ELSE l

\* the message types the WebSocket loop broadcasts
WsPublished ==
    {"TextMessage", "FileInit", "FileChunk", "FileComplete", "VoiceData", "VideoData"}

\* the room the WebSocket loop switches to on JoinRoom
WsJoinRoom(p, r) == IF Utf8Valid(p.payload) THEN p.payload ELSE r

\* ws_tx.send(x).await: "ok" (queued), "closed" (write_task has ended and
\* dropped the receiver) or "full" (suspends until one of the other two)
WsTxSend(s) ==
    CASE ~writer[s] -> "closed"
      [] Len(outq[s]) < WsQueueCap -> "ok"
      [] OTHER -> "full"

\* a loop that also ends on a binary frame that does not decode
WsEndsOnBadFrame(ev) ==
    ev.kind \in {"close", "end"} \/ (ev.kind = "binary" /\ ~DecodeOk(ev.data))

\* the events that end the loop: Some(Ok(Message::Close(_))) | None => break
WsEnds(ev) == ev.kind \in {"close", "end"}

\* A. Incoming from WebSocket (Client): one turn of the loop taken by
\* receiver.next()
WsRead(s, ev) ==
    /\ transport[s] = "ws" /\ pc[s] = "loop"
    /\ LET ok == ev.kind = "binary" /\ DecodeOk(ev.data)
           p == Decode(ev.data)
           t == IF ok THEN p.msg_type ELSE "none"
           exit == WsEnds(ev) \/ (t \in WsPublished /\ EndsOnSend(s))
           resp == Reply(Encode(NewPacket("AuthSuccess", Str_AccessGranted,
                                          p.session_id)))
           r == WsTxSend(s)
           sid == IF ok /\ session_id[s] = None THEN p.session_id ELSE session_id[s]
       IN /\ pc' = [pc EXCEPT ![s] =
                      CASE exit -> "done"
                        [] t = "AuthRequest" /\ r = "full" -> "send_auth"
                        [] OTHER -> "loop"]
          /\ session_id' = Upd(session_id, s, exit, None, sid)
          /\ hs' = IF ok THEN [hs EXCEPT ![s] = HsStep(@, t)] ELSE hs
          /\ disc' = IF t = "Disconnect" THEN [disc EXCEPT ![s] = TRUE] ELSE disc
          /\ room' = Upd(room, s, exit, Str_global,
                         IF t = "JoinRoom" THEN WsJoinRoom(p, room[s]) ELSE room[s])
          /\ joined' = Upd(joined, s, exit, NoJoin,
                           IF t = "JoinRoom" THEN JoinMark(p, log) ELSE joined[s])
          /\ armed' = [armed EXCEPT ![s] = TRUE]
          /\ outq' = Upd(outq, s, exit, <<>>,
                         IF t = "AuthRequest" /\ r = "ok"
                         THEN Append(outq[s], resp) ELSE outq[s])
          /\ pending' = IF t = "AuthRequest" /\ r = "full"
                        THEN [pending EXCEPT ![s] = <<resp>>] ELSE pending
          /\ writer' = Upd(writer, s, exit, FALSE, writer[s])
          /\ cursor' = Upd(cursor, s, exit, 0, cursor[s])
          /\ log' = CASE exit -> WsLeave(log, s, room[s], session_id[s])
                      [] t \in WsPublished -> Send(log, room[s], ev.data, s)
                      [] OTHER -> log
          /\ appIn' = IF t \in AppTypes THEN appIn + 1 ELSE appIn
          /\ connections' = AfterHandler(connections, exit)
    /\ UNCHANGED <<transport, sent, discarded>>

\* B. Incoming from Broadcast: one turn of the loop taken by
\* broadcast_rx.recv() returning Ok
WsBusRecv(s) ==
    /\ transport[s] = "ws" /\ pc[s] = "loop" /\ armed[s] /\ Ready(s)
    /\ LET t == NextTuple(s)
           fwd == RoomMatches(t.room, room[s])
           r == WsTxSend(s)
           exit == fwd /\ r = "closed"
       IN /\ pc' = [pc EXCEPT ![s] =
                      CASE exit -> "done"
                        [] fwd /\ r = "full" -> "send_bcast"
                        [] OTHER -> "loop"]
          /\ outq' = Upd(outq, s, exit, <<>>,
                         IF fwd /\ r = "ok"
                         THEN Append(outq[s], Relay(t.bytes, t)) ELSE outq[s])
          /\ pending' = IF fwd /\ r = "full"
                        THEN [pending EXCEPT ![s] = <<Relay(t.bytes, t)>>] ELSE pending
          /\ log' = IF exit THEN WsLeave(log, s, room[s], session_id[s]) ELSE log
          /\ discarded' = IF fwd THEN discarded ELSE [discarded EXCEPT ![s] = TRUE]
          /\ cursor' = Upd(cursor, s, exit, 0, cursor[s] + 1)
          /\ room' = Upd(room, s, exit, Str_global, room[s])
          /\ session_id' = Upd(session_id, s, exit, None, session_id[s])
          /\ joined' = Upd(joined, s, exit, NoJoin, joined[s])
          /\ connections' = AfterHandler(connections, exit)
    /\ UNCHANGED <<transport, armed, writer, sent, hs, disc, appIn>>

\* a suspended ws_tx.send completes: a slot came free, or write_task ended.
\* The result is ignored for the AuthSuccess reply and ends the loop for a
\* relayed tuple
WsSendResume(s) ==
    /\ transport[s] = "ws" /\ pc[s] \in {"send_auth", "send_bcast"}
    /\ WsTxSend(s) # "full"
    /\ LET exit == pc[s] = "send_bcast" /\ WsTxSend(s) = "closed"
       IN /\ pc' = [pc EXCEPT ![s] = IF exit THEN "done" ELSE "loop"]
          /\ outq' = Upd(outq, s, exit, <<>>,
                         IF WsTxSend(s) = "ok"
                         THEN Append(outq[s], pending[s][1]) ELSE outq[s])
          /\ pending' = [pending EXCEPT ![s] = NoPending]
          /\ log' = IF exit THEN WsLeave(log, s, room[s], session_id[s]) ELSE log
          /\ cursor' = Upd(cursor, s, exit, 0, cursor[s])
          /\ room' = Upd(room, s, exit, Str_global, room[s])
          /\ session_id' = Upd(session_id, s, exit, None, session_id[s])
          /\ joined' = Upd(joined, s, exit, NoJoin, joined[s])
          /\ connections' = AfterHandler(connections, exit)
    /\ UNCHANGED <<transport, armed, writer, sent, hs, disc, discarded, appIn>>

\* the value write_task takes from the mpsc channel next
WsNextOut(q) == Head(q)

\* 1. Write Loop: write_task takes one value and sends it as a binary frame;
\* wok: sender.send succeeds, otherwise the task ends and drops the receiver
WriteTask(s, wok) ==
    /\ transport[s] = "ws" /\ writer[s] /\ outq[s] # <<>>
    /\ IF wok
       THEN /\ sent' = [sent EXCEPT ![s] = Append(@, WsNextOut(outq[s]))]
            /\ outq' = [outq EXCEPT ![s] = Tail(@)]
            /\ UNCHANGED writer
       ELSE /\ writer' = [writer EXCEPT ![s] = FALSE]
            /\ outq' = [outq EXCEPT ![s] = <<>>]
            /\ UNCHANGED sent
    /\ UNCHANGED <<transport, pc, room, session_id, cursor, armed, pending, log, hs,
                   disc, joined, discarded, appIn, connections>>

(***************************************************************************)
(* The system: every step any session can take when its client chooses     *)
(* among the packets P and a write to a client has an outcome in W (TRUE:  *)
(* it succeeds). With `strict` the clients keep to the handshake order of  *)
(* spec 4.4: HandshakeInit first, HandshakeComplete second. `fed` records  *)
(* the first k frames of each connection.                                  *)
(***************************************************************************)
Abides(s, t, strict) == strict => HsStep(hs[s], t) # "bad"

\* the frame an event carries, as its bytes on the wire, if it carries one
Framed(ev) ==
    CASE ev.kind = "packet" -> <<Encode(ev.packet)>>
      [] ev.kind = "binary" -> <<ev.data>>
      [] OTHER -> <<>>

\* the first k frames of a connection are recorded in `fed` as they are read
Feeds(s, ev, k) ==
    fed' = IF Len(fed[s]) < k THEN [fed EXCEPT ![s] = @ \o Framed(ev)] ELSE fed

TcpClient(s, ev, n, strict) ==
    ev.kind = "packet" =>
        /\ Abides(s, ev.packet.msg_type, strict)
        /\ pc[s] = "loop" => Offered(s, ev.packet.msg_type, n)

WsClient(s, ev, n, strict) ==
    /\ ev.kind = "binary" /\ DecodeOk(ev.data) =>
          /\ Abides(s, Decode(ev.data).msg_type, strict)
          /\ Offered(s, Decode(ev.data).msg_type, n)
    /\ ev.kind = "binary" /\ ~DecodeOk(ev.data) => (strict => hs[s] = "done")

System(P, W, n, strict, k) ==
    \E s \in Sessions :
        \/ AcceptTcp(s) /\ UNCHANGED fed
        \/ \E ev \in TcpEvents(P), wok \in W :
              TcpClient(s, ev, n, strict) /\ Feeds(s, ev, k) /\ TcpHandshakeInit(s, ev, wok)
        \/ \E ev \in TcpEvents(P) :
              TcpClient(s, ev, n, strict) /\ Feeds(s, ev, k) /\ TcpHandshakeComplete(s, ev)
        \/ \E ev \in TcpEvents(P), wok \in W :
              TcpClient(s, ev, n, strict) /\ Feeds(s, ev, k) /\ TcpRead(s, ev, wok)
        \/ (\E wok \in W : TcpBusRecv(s, wok)) /\ UNCHANGED fed
        \/ BusLag(s) /\ UNCHANGED fed
        \/ AcceptWs(s) /\ UNCHANGED fed
        \/ \E ev \in WsEvents(P) :
              WsClient(s, ev, n, strict) /\ Feeds(s, ev, k) /\ WsRead(s, ev)
        \/ WsBusRecv(s) /\ UNCHANGED fed
        \/ WsSendResume(s) /\ UNCHANGED fed
        \/ (\E wok \in W : WriteTask(s, wok)) /\ UNCHANGED fed

\* any client, any write outcome, the base packets
Next == System(BaseMenu, BOOLEAN, MaxPublish, FALSE, 0)

Spec == Init /\ [][Next]_vars

\* clients that keep to the handshake and also send JoinRoom
NextRooms == System(RoomsMenu, {TRUE}, MaxPublishFew, TRUE, 0)

SpecRooms == Init /\ [][NextRooms]_vars

\* any client, also sending VoiceData and Disconnect
NextTypes == System(TypesMenu, {TRUE}, MaxPublishFew, FALSE, 0)

SpecTypes == Init /\ [][NextTypes]_vars

\* clients that keep to the handshake, send AuthRequest and change the
\* session_id of their packets after HandshakeInit; any write outcome
NextAuth == System(AuthMenu, BOOLEAN, MaxPublishFew, TRUE, 1)

SpecAuth == Init /\ [][NextAuth]_vars

\* clients that keep to the handshake and then also send undecodable frames
\* and packets of the types the loops have no arm for
NextFrames == System(FramesMenu, {TRUE}, MaxPublishFew, TRUE, MaxFed)

SpecFrames == Init /\ [][NextFrames]_vars

(***************************************************************************)
(* Vocabulary of the properties.                                           *)
(***************************************************************************)
\* the session is in its relay loop
InLoop(s) == pc[s] \in {"loop", "send_auth", "send_bcast"}

\* the session is Established: in its loop after Init and Complete arrived
Established(s) == InLoop(s) /\ hs[s] = "done"

\* this step is session s handling packet p read from its client
ReadsPacket(s, p) ==
    \/ \E wok \in BOOLEAN : TcpRead(s, [kind |-> "packet", packet |-> p], wok)
    \/ WsRead(s, [kind |-> "binary", data |-> Encode(p)])

\* this step is session s handling a tuple it dequeued from the bus
BusStep(s) == (\E wok \in BOOLEAN : TcpBusRecv(s, wok)) \/ WsBusRecv(s)

\* this step hands bytes b to the client of s: written to the socket (TCP),
\* queued for write_task or held by the suspended send (WebSocket)
HandsOver(s, b) ==
    \/ Len(sent'[s]) = Len(sent[s]) + 1 /\ sent'[s][Len(sent'[s])].bytes = b
    \/ Len(outq'[s]) = Len(outq[s]) + 1 /\ outq'[s][Len(outq'[s])].bytes = b
    \/ pending[s] = NoPending /\ pending'[s] # NoPending /\ pending'[s][1].bytes = b

\* this step hands something to the client of s
HandsOverAny(s) ==
    \/ Len(sent'[s]) > Len(sent[s])
    \/ Len(outq'[s]) > Len(outq[s])
    \/ pending[s] = NoPending /\ pending'[s] # NoPending

\* the relayed tuples among what the client of s has been sent
Relayed(s) == {i \in 1..Len(sent[s]) : sent[s][i].relay}

\* s holds a relayed tuple for its client, sent or still queued
HasRelay(s) ==
    \/ Relayed(s) # {}
    \/ \E i \in 1..Len(outq[s]) : outq[s][i].relay
    \/ \E i \in 1..Len(pending[s]) : pending[s][i].relay

(***************************************************************************)
(* C1. A connection whose first packet is not HandshakeInit, or whose       *)
(* second packet is not HandshakeComplete, is closed and is never in the   *)
(* relay loop.                                                             *)
(***************************************************************************)
C1_HandshakeOrder == \A s \in Sessions : hs[s] = "bad" => pc[s] = "done"

(***************************************************************************)
(* C2. Every tuple on the bus was published by a session that completed    *)
(* the handshake, and every session that relayed a tuple to its client     *)
(* completed the handshake.                                                *)
(***************************************************************************)
C2_EstablishedOnly ==
    /\ \A i \in 1..Len(log) : hs[log[i].pub] = "done"
    /\ \A s \in Sessions : HasRelay(s) => hs[s] = "done"

(***************************************************************************)
(* C3. Room isolation: a session hands a dequeued tuple to its client only *)
(* if the tuple's room tag equals the session's room at the dequeue.       *)
(***************************************************************************)
C3_RoomIsolation ==
    [][\A s \in Sessions :
          BusStep(s) /\ HandsOverAny(s) => NextTuple(s).room = room[s]]_vars

\* a session that has relayed a tuple of its room and dropped one of another
C3_Witness == \E s \in Sessions : discarded[s] /\ Relayed(s) # {}

(***************************************************************************)
(* C4. JoinRoom in an Established session sets the room to the payload     *)
(* when it is present and valid UTF-8, leaves it unchanged otherwise, and  *)
(* publishes nothing.                                                      *)
(***************************************************************************)
C4_JoinRoom ==
    [][\A s \in Sessions, p \in OfTypes({"JoinRoom"}) :
          Established(s) /\ ReadsPacket(s, p) =>
             /\ room'[s] = IF Len(p.payload) > 0 /\ Utf8Valid(p.payload)
                           THEN p.payload ELSE room[s]
             /\ log' = log]_vars

(***************************************************************************)
(* C5. When an Established session in room r ends, for any cause, exactly  *)
(* one tuple (r, PresenceUpdate "leave" with its session_id) is published. *)
(***************************************************************************)
C5_PresenceOnExit ==
    [][\A s \in Sessions :
          Established(s) /\ pc'[s] = "done" =>
             log' = Send(log, room[s],
                         Encode(NewPacket("PresenceUpdate", Str_leave, session_id[s])),
                         s)]_vars

(***************************************************************************)
(* C6. Publish contract: an Established session that reads a packet of an  *)
(* application type publishes exactly one tuple, tagged with its room and  *)
(* carrying the packet's encoded bytes.                                    *)
(***************************************************************************)
C6_PublishContract ==
    [][\A s \in Sessions, p \in InPackets :
          p.msg_type \in AppTypes /\ Established(s) /\ ReadsPacket(s, p) =>
             log' = Send(log, room[s], Encode(p), s)]_vars

(***************************************************************************)
(* C7. An Established session that reads a Disconnect packet leaves its    *)
(* loop: it is closed.                                                     *)
(***************************************************************************)
C7_DisconnectCloses ==
    \A s \in Sessions : disc[s] /\ hs[s] = "done" => pc[s] = "done"

(***************************************************************************)
(* C8. Per-publisher ordering: the tuples of one publisher that a client   *)
(* is sent arrive in the order they were published.                        *)
(***************************************************************************)
C8_PublisherOrder ==
    \A s \in Sessions : \A i, j \in Relayed(s) :
        i < j /\ sent[s][i].pub = sent[s][j].pub => sent[s][i].seq < sent[s][j].seq

\* a client was sent two tuples of one publisher with a tuple of another
\* publisher between them
C8_Witness ==
    \E s \in Sessions : \E i, k, j \in Relayed(s) :
        /\ i < k /\ k < j
        /\ sent[s][i].pub = sent[s][j].pub
        /\ sent[s][k].pub # sent[s][i].pub

(***************************************************************************)
(* C9. Drop for slow consumers: a session that reads an application packet *)
(* puts its tuple on the bus in that same step, however far behind the     *)
(* other receivers are, and leaves every other session as it was; and a    *)
(* session with an unread tuple can take its next bus step whatever the    *)
(* other sessions are doing.                                               *)
(***************************************************************************)
C9_PublishNeverWaits ==
    /\ [][\A s \in Sessions, p \in BaseMenu :
             p.msg_type \in AppTypes /\ ReadsPacket(s, p) =>
                /\ Len(log') = Len(log) + 1
                /\ log'[Len(log')].room = room[s]
                /\ log'[Len(log')].bytes = Encode(p)
                /\ \A t \in Sessions \ {s} :
                      pc'[t] = pc[t] /\ cursor'[t] = cursor[t] /\ armed'[t] = armed[t]]_vars
    /\ [](\A t \in Sessions :
             pc[t] = "loop" /\ armed[t] /\ cursor[t] < Len(log) =>
                ENABLED (BusLag(t) \/ BusStep(t)))

\* a receiver has fallen more than the capacity behind and lost tuples,
\* while another session's client was sent the newest tuple
C9_Witness ==
    \E s, t \in Sessions :
        /\ s # t /\ pc[t] = "loop" /\ Lagged(t)
        /\ \E i \in Relayed(s) : sent[s][i].seq = Len(log)

(***************************************************************************)
(* C10. Join then deliver: once a session has processed JoinRoom "lobby",  *)
(* a TextMessage another session publishes to "lobby" afterwards is handed *)
(* to its client when it dequeues it.                                      *)
(***************************************************************************)
C10_JoinThenDeliver ==
    [][\A s \in Sessions :
          /\ Established(s) /\ joined[s] # NoJoin /\ BusStep(s)
          /\ \A mark \in joined[s] : NextTuple(s).seq > mark
          /\ NextTuple(s).room = Str_lobby
          /\ NextTuple(s).pub # s
          /\ Decode(NextTuple(s).bytes).msg_type = "TextMessage"
          => HandsOver(s, NextTuple(s).bytes)]_vars

(***************************************************************************)
(* Further vocabulary.                                                     *)
(***************************************************************************)
\* the state of spec 4.4 the handler of s is in
StateOf(s) ==
    CASE pc[s] = "hs_init" -> "AwaitingInit"
      [] pc[s] = "hs_complete" -> "AwaitingComplete"
      [] InLoop(s) -> "Established"
      [] pc[s] = "done" -> "Closed"
      [] OTHER -> "none"

\* the (room, bytes) tuples s has published, in order
Published(s) ==
    LET own == SelectSeq(log, LAMBDA e : e.pub = s)
    IN [i \in 1..Len(own) |-> <<own[i].room, own[i].bytes>>]

\* everything handed to the client of s, in order: written, queued for
\* write_task, or held by the suspended send
GivenTo(s) ==
    LET all == sent[s] \o outq[s] \o pending[s]
    IN [i \in 1..Len(all) |-> all[i].bytes]

\* s has not taken a tuple from the bus yet
BusIdle(s) == ~discarded[s] /\ ~HasRelay(s)

\* every frame s was sent is recorded (and decodes as a packet)
FedKnown(s) == Len(fed[s]) < MaxFed /\ \A i \in 1..Len(fed[s]) : DecodeOk(fed[s][i])

(***************************************************************************)
(* C11. Transport equivalence: a TCP session and a WebSocket session that  *)
(* were sent the same packets (at least one), and have taken the same     *)
(* (here: no) tuples from the bus, are in the same session state and the   *)
(* same room, have                                                         *)
(* published the same tuples and have handed the same bytes to their       *)
(* clients.                                                                *)
(***************************************************************************)
C11_TransportEquivalence ==
    \A s, t \in Sessions :
        /\ transport[s] = "tcp" /\ transport[t] = "ws"
        /\ pc[s] # "done" /\ pc[t] # "done"
        /\ FedKnown(s) /\ FedKnown(t) /\ fed[s] = fed[t] /\ fed[s] # <<>>
        /\ BusIdle(s) /\ BusIdle(t)
        => /\ StateOf(s) = StateOf(t)
           /\ room[s] = room[t]
           /\ Published(s) = Published(t)
           /\ GivenTo(s) = GivenTo(t)

\* this step is session s handling packet p read from its client, with the
\* connection to the client working
ReadsAndWrites(s, p) ==
    \/ TcpRead(s, [kind |-> "packet", packet |-> p], TRUE)
    \/ WsRead(s, [kind |-> "binary", data |-> Encode(p)])

\* the bytes this step hands to the client of s, in order
NewlyGiven(s) == SubSeq(GivenTo(s)', Len(GivenTo(s)) + 1, Len(GivenTo(s)'))

(***************************************************************************)
(* C12. AuthRequest is handled locally: an Established session that reads  *)
(* an AuthRequest hands its client exactly one packet, an AuthSuccess      *)
(* stamped with the session's session_id, publishes nothing and keeps its  *)
(* room.                                                                   *)
(***************************************************************************)
C12_AuthLocal ==
    [][\A s \in Sessions, p \in InPackets :
          p.msg_type = "AuthRequest" /\ Established(s) /\ ReadsAndWrites(s, p) =>
             /\ Len(NewlyGiven(s)) = 1
             /\ Decode(NewlyGiven(s)[1]).msg_type = "AuthSuccess"
             /\ Decode(NewlyGiven(s)[1]).session_id = session_id[s]
             /\ log' = log
             /\ room'[s] = room[s]]_vars

\* the first frame of s was a HandshakeInit
InitFirst(s) == hs[s] \in {"init", "done"} /\ fed[s] # <<>>

\* the session_id of the HandshakeInit s received
InitId(s) == Decode(fed[s][1]).session_id

\* the replies (not relayed tuples) handed to the client of s, in order
RepliesTo(s) ==
    LET all == SelectSeq(sent[s] \o outq[s] \o pending[s], LAMBDA e : ~e.relay)
    IN [i \in 1..Len(all) |-> Decode(all[i].bytes)]

(***************************************************************************)
(* C13. Session identity is fixed at HandshakeInit: a connection whose     *)
(* first packet was HandshakeInit is handed, first of all, a               *)
(* HandshakeResponse of 32 zero bytes stamped with that packet's           *)
(* session_id; every reply it is handed and the presence packet published  *)
(* for it carry that same session_id.                                      *)
(***************************************************************************)
C13_SessionIdentity ==
    \A s \in Sessions :
        InitFirst(s) =>
           /\ pc[s] # "done" =>
                 /\ RepliesTo(s) # <<>>
                 /\ RepliesTo(s)[1] = NewPacket("HandshakeResponse", ZeroKey, InitId(s))
           /\ \A i \in 1..Len(RepliesTo(s)) : RepliesTo(s)[i].session_id = InitId(s)
           /\ \A i \in 1..Len(log) :
                 log[i].pub = s /\ Decode(log[i].bytes).msg_type = "PresenceUpdate"
                 => Decode(log[i].bytes).session_id = InitId(s)

(***************************************************************************)
(* C14. No echo suppression: a session that dequeues a tuple it published  *)
(* itself, tagged with the room it is in at the dequeue, hands the tuple's *)
(* bytes to its own client (or ends, the write having failed), as it does  *)
(* for a tuple of any other publisher.                                     *)
(***************************************************************************)
C14_NoEchoSuppression ==
    [][\A s \in Sessions :
          /\ BusStep(s)
          /\ log[cursor[s] + 1].pub = s
          /\ log[cursor[s] + 1].room = room[s]
          => HandsOver(s, log[cursor[s] + 1].bytes) \/ pc'[s] = "done"]_vars

\* a client has been sent a tuple its own session published
C14_Witness == \E s \in Sessions : \E i \in Relayed(s) : sent[s][i].pub = s

\* this step is the TCP handler of s getting Err from read_packet
TcpReadErr(s) ==
    \/ \E wok \in BOOLEAN : TcpHandshakeInit(s, [kind |-> "err"], wok)
    \/ TcpHandshakeComplete(s, [kind |-> "err"])
    \/ \E wok \in BOOLEAN : TcpRead(s, [kind |-> "err"], wok)

(***************************************************************************)
(* C15. Framing errors are fatal on TCP and not on WebSocket: a TCP        *)
(* session whose read fails ends; an Established WebSocket session that    *)
(* reads a binary frame which does not decode stays in its loop, ready for *)
(* the next frame, with its room and session_id as they were and nothing   *)
(* published.                                                              *)
(***************************************************************************)
C15_FramingErrors ==
    [][\A s \in Sessions :
          /\ TcpReadErr(s) => pc'[s] = "done"
          /\ Established(s) /\ WsRead(s, [kind |-> "binary", data |-> Malformed]) =>
                /\ pc[s] = "loop" /\ pc'[s] = "loop"
                /\ room'[s] = room[s]
                /\ session_id'[s] = session_id[s]
                /\ hs'[s] = hs[s]
                /\ log' = log]_vars

\* a WebSocket session whose third frame did not decode is still in its
\* loop and has published since, and a TCP session has ended
C15_Witness ==
    \E s, t \in Sessions :
        /\ transport[s] = "ws" /\ Established(s)
        /\ Len(fed[s]) = 3 /\ fed[s][3] = Malformed
        /\ \E i \in 1..Len(log) : log[i].pub = s
        /\ transport[t] = "tcp" /\ pc[t] = "done"

\* the types that are neither handled locally nor application types
IgnoredTypes == MsgTypes \ (AppTypes \cup {"AuthRequest", "JoinRoom", "Disconnect"})

(***************************************************************************)
(* C16. An Established session that reads a packet of an unknown type, or  *)
(* of any type other than AuthRequest, JoinRoom, Disconnect and the        *)
(* application types (a repeated HandshakeInit or HandshakeComplete        *)
(* included), stays where it is in its loop, keeps its room and            *)
(* session_id, publishes nothing and hands nothing to its client.          *)
(***************************************************************************)
C16_IgnoredTypes ==
    [][\A s \in Sessions, p \in InPackets :
          p.msg_type \in IgnoredTypes /\ Established(s) /\ ReadsPacket(s, p) =>
             /\ pc'[s] = pc[s]
             /\ hs'[s] = hs[s]
             /\ room'[s] = room[s]
             /\ session_id'[s] = session_id[s]
             /\ log' = log
             /\ ~HandsOverAny(s)]_vars

\* a TCP session whose third packet was of an unknown type and a WebSocket
\* session whose third packet was a second HandshakeInit, both Established
C16_Witness ==
    \E s, t \in Sessions :
        /\ transport[s] = "tcp" /\ Established(s)
        /\ Len(fed[s]) = 3 /\ DecodeOk(fed[s][3])
        /\ Decode(fed[s][3]).msg_type = "Unknown"
        /\ transport[t] = "ws" /\ Established(t)
        /\ Len(fed[t]) = 3 /\ DecodeOk(fed[t][3])
        /\ Decode(fed[t][3]).msg_type = "HandshakeInit"

(***************************************************************************)
(* C17. Relay preserves content: the tuple a session publishes decodes to  *)
(* the packet it read; what a subscriber hands to its client decodes to    *)
(* the same message_type, session_id, flags and payload as the tuple it    *)
(* dequeued; and a TCP subscriber hands over (or ends on the failed write) *)
(* every tuple tagged with its room.                                       *)
(***************************************************************************)
C17_RelayPreserves ==
    [][/\ \A s \in Sessions, p \in InPackets :
             p.msg_type \in AppTypes /\ ReadsPacket(s, p) /\ Len(log') = Len(log) + 1 =>
                /\ DecodeOk(log'[Len(log')].bytes)
                /\ Decode(log'[Len(log')].bytes) = p
       /\ \A s \in Sessions :
             BusStep(s) /\ HandsOverAny(s) =>
                /\ Len(NewlyGiven(s)) = 1
                /\ DecodeOk(NewlyGiven(s)[1])
                /\ Decode(NewlyGiven(s)[1]) = Decode(log[cursor[s] + 1].bytes)
       /\ \A s \in Sessions :
             BusStep(s) /\ transport[s] = "tcp" /\ log[cursor[s] + 1].room = room[s] =>
                HandsOverAny(s) \/ pc'[s] = "done"]_vars

\* a TCP client was sent a flagged packet a WebSocket session published,
\* and a WebSocket client a packet a TCP session published
C17_Witness ==
    \E s, t \in Sessions :
        /\ transport[s] = "tcp" /\ transport[t] = "ws"
        /\ \E i \in Relayed(s) :
              sent[s][i].pub = t /\ Decode(sent[s][i].bytes).flags # 0
        /\ \E j \in Relayed(t) : sent[t][j].pub = s

\* no other session is in its loop in the room of s
Alone(s) == \A t \in Sessions \ {s} : ~InLoop(t) \/ room[t] # room[s]

(***************************************************************************)
(* C18. A publish that no other session receives is not an error: an       *)
(* Established session that reads an application packet while no other     *)
(* session is in its loop in the same room stays in its loop, ready for    *)
(* the next packet, and keeps its room.                                    *)
(***************************************************************************)
C18_PublishAlone ==
    [][\A s \in Sessions, p \in InPackets :
          p.msg_type \in AppTypes /\ Established(s) /\ Alone(s) /\ ReadsPacket(s, p) =>
             /\ pc[s] = "loop" /\ pc'[s] = "loop"
             /\ room'[s] = room[s]
             /\ hs'[s] = hs[s]]_vars

\* a session has published twice, Established still, while no other
\* connection was ever accepted
C18_Witness ==
    \E s \in Sessions :
        /\ Established(s)
        /\ \A t \in Sessions \ {s} : pc[t] = "idle"
        /\ \E i, j \in 1..Len(log) : i < j /\ log[i].pub = s /\ log[j].pub = s

\* the bus branch of the select! s is waiting in has returned the lag
\* error, and nothing has come from the client of s since
HasLagged(s) == pc[s] = "loop" /\ ~armed[s]

(***************************************************************************)
(* C19. Lag recovery: a session that is still connected after its receive  *)
(* returned the lag error, and whose subscription holds a tuple of its     *)
(* room, can take that tuple and hand it to its client as things stand,    *)
(* with no further packet from its own client.                             *)
(***************************************************************************)
C19_LagRecovery ==
    \A s \in Sessions :
        HasLagged(s) /\ Ready(s) /\ NextTuple(s).room = room[s] => ENABLED BusStep(s)

\* the connections whose handler is running
Running == {s \in Sessions : pc[s] \notin {"idle", "done"}}

(***************************************************************************)
(* C20. Connection-count balance: the connection count of the metrics is   *)
(* the number of handlers running, TCP and WebSocket, and is never         *)
(* negative, whichever way the handlers have ended.                        *)
(***************************************************************************)
C20_ConnectionBalance ==
    /\ connections = Cardinality(Running)
    /\ connections >= 0

\* the count is back at zero after a TCP handler that failed in the
\* handshake and a WebSocket handler that left its loop
C20_Witness ==
    \E s, t \in Sessions :
        /\ transport[s] = "tcp" /\ pc[s] = "done" /\ hs[s] = "init"
        /\ transport[t] = "ws" /\ pc[t] = "done"
        /\ connections = 0

====
